---- MODULE Spec2Model ----
(***************************************************************************)
(* Image slideshow.                                                        *)
(*                                                                         *)
(* Two components are modelled, connected only over HTTP:                  *)
(*   - the Slideshow controller of public/slideshow.js (the class at       *)
(*     lines 1-395): its fields (this), the DOM elements it writes (dom)   *)
(*     and the browser resources it owns (env: interval timers, timeouts,  *)
(*     image loads and fetches in flight);                                 *)
(*   - the routes of src/server.ts (createApp, lines 174-235) over a       *)
(*     filesystem of character-level paths.                                *)
(*                                                                         *)
(* Every handler of the class is an operator from a world                  *)
(* [this, dom, env] to the world it leaves behind, composed the way the    *)
(* code calls them; its random numbers and the event's data are explicit   *)
(* arguments.  An action delivers one event and installs the world the     *)
(* handler returns.  Array indexes are 0-based as in the source; At reads  *)
(* a JavaScript array.                                                     *)
(***************************************************************************)
EXTENDS Integers, Sequences, FiniteSets, TLC

(***************************************************************************)
(* Bounds of the model.                                                    *)
(***************************************************************************)
\* The longest image list the server hands to the controller.
MaxImages == 3
\* setInterval schedules alive at once (the guards of the events stop here).
MaxTimers == 3
\* Image loads in flight at once (the guards of the events stop here).
MaxLoads == 1
\* Image loads in flight at once under SpecSlides.
MaxPending == 2
\* The longest list shuffled under SpecShuffle.
MaxShuffled == 5
\* EXIF tags in one file under SpecMetadata.
MaxTags == 2
\* Metadata requests in flight at once (the guards of the events stop here).
MaxFetches == 2
\* window.innerWidth of the touch events, in pixels.
ScreenWidth == 4

(***************************************************************************)
(* Values of the program.                                                  *)
(***************************************************************************)
\* this.interval of a new Slideshow.
DefaultInterval == 30000
\* The other period the interval select offers.
ShortInterval == 5000
IntervalOptions == {DefaultInterval, ShortInterval}

\* JavaScript's null (timer handles are positive integers) and undefined
\* (image names are positive integers).
Null == 0
Undefined == 0

ImageNames == 1..MaxImages

\* The list GET /api/images answers with: n names in the server's order,
\* which is not the sorted order.
ServerList(n) == [i \in 1..n |-> (i % n) + 1]
ServerLists == {ServerList(n) : n \in 0..MaxImages}

Keys == {"ArrowRight", " ", "ArrowLeft", "Escape", "f", "F", "s", "S", "i", "I", "x"}
\* The keys that leave the metadata panel alone.
ControlKeys == Keys \ {"i", "I"}

\* this, dom, env: the controller, its page and the browser; last: history,
\* the handler the last delivered event ran.
\* disk: the server's filesystem; req, resp: the request being served and its
\* answer; resp2: the answer the same request gets on the filesystem that
\* agrees with disk inside the images folder and holds nothing outside it.
\* call: the last direct call of an exported function, with its argument
\* and what it returned.
\* conc: a second request, in flight at the same time as req, and its answer.
VARIABLES this, dom, env, last, disk, req, resp, resp2, call, conc

feVars == <<this, dom, env, last>>

srvVars == <<disk, req, resp, resp2>>

vars == <<this, dom, env, last, disk, req, resp, resp2, call, conc>>

W == [this |-> this, dom |-> dom, env |-> env]

(***************************************************************************)
(* JavaScript primitives.                                                  *)
(***************************************************************************)
\* arr[i] of a JavaScript array: undefined outside [0, length).
At(arr, i) == IF i >= 0 /\ i < Len(arr) THEN arr[i + 1] ELSE Undefined

\* The % operator: the remainder takes the sign of the dividend.
JsRem(a, n) == IF a >= 0 THEN a % n ELSE 0 - ((0 - a) % n)

\* arr.indexOf(x): the first index holding x, or -1.
IndexOf(arr, x) ==
  IF \E k \in 1..Len(arr) : arr[k] = x
    THEN (CHOOSE k \in 1..Len(arr) : arr[k] = x /\ \A m \in 1..(k - 1) : arr[m] # x) - 1
    ELSE 0 - 1

\* Mutant of Swap: arr[i] = arr[j] alone, the other half of the exchange lost.
SwapOverwrites(arr, i, j) ==
  [k \in 1..Len(arr) |-> IF k = i + 1 THEN arr[j + 1] ELSE arr[k]]

\* [arr[i], arr[j]] = [arr[j], arr[i]]
Swap(arr, i, j) ==
  [k \in 1..Len(arr) |-> IF k = i + 1 THEN arr[j + 1]
                         ELSE IF k = j + 1 THEN arr[i + 1]
                         ELSE arr[k]]

\* The values Math.floor(Math.random() * (i + 1)) takes for i = 1..n-1:
\* rnd[i] is the draw of the loop's round i.
Rnds(n) == {r \in [1..(n - 1) -> 0..(n - 1)] : \A i \in 1..(n - 1) : r[i] <= i}

\* Mutant of ShuffleFrom: the loop stops at i > 1, the round i = 1 is lost.
RECURSIVE ShuffleFromStopsEarly(_, _, _)
ShuffleFromStopsEarly(arr, i, rnd) ==
  IF i <= 1 THEN arr ELSE ShuffleFromStopsEarly(Swap(arr, i, rnd[i]), i - 1, rnd)

\* for (let i = length - 1; i > 0; i--) swap(i, j): the rounds from i down.
RECURSIVE ShuffleFrom(_, _, _)
ShuffleFrom(arr, i, rnd) ==
  IF i <= 0 THEN arr ELSE ShuffleFrom(Swap(arr, i, rnd[i]), i - 1, rnd)

\* The handle setInterval / setTimeout returns: one no live schedule has.
FreshId(used) == CHOOSE i \in 1..(Cardinality(used) + 1) :
                   i \notin used /\ \A j \in 1..(i - 1) : j \in used

Other(slot) == IF slot = 1 THEN 2 ELSE 1

(***************************************************************************)
(* The handlers of class Slideshow.                                        *)
(***************************************************************************)
updateShuffleButton(w) ==
  [w EXCEPT !.dom.shuffleBtn = IF w.this.isShuffled THEN "Shuffle" ELSE "Order"]

\* Mutant of updateDisplayOrder: the shuffle loop runs whatever the mode.
updateDisplayOrderIgnoringMode(w, rnd) ==
  updateShuffleButton(
    [w EXCEPT !.this.displayImages =
        ShuffleFrom(w.this.images, Len(w.this.images) - 1, rnd)])

updateDisplayOrder(w, rnd) ==
  LET copy == w.this.images
      w1 == IF w.this.isShuffled
              THEN [w EXCEPT !.this.displayImages = ShuffleFrom(copy, Len(copy) - 1, rnd)]
              ELSE [w EXCEPT !.this.displayImages = copy]
  IN updateShuffleButton(w1)

\* Mutant of fetchMetadata: the request goes out for an empty order too.
fetchMetadataOnEmpty(w) ==
  IF ~w.this.showMetadata
    THEN w
    ELSE [w EXCEPT !.env.fetches = Append(@, At(w.this.displayImages, w.this.currentIndex))]

fetchMetadata(w) ==
  IF ~w.this.showMetadata \/ Len(w.this.displayImages) = 0
    THEN w
    ELSE [w EXCEPT !.env.fetches = Append(@, At(w.this.displayImages, w.this.currentIndex))]

\* Mutant of toggleShuffle: the position is reset instead of re-located.
toggleShuffleResetsIndex(w, rnd) ==
  LET w2 == updateDisplayOrder([w EXCEPT !.this.isShuffled = ~@], rnd)
  IN [w2 EXCEPT !.this.currentIndex = 0,
                !.dom.imageCounter = <<1, Len(w2.this.displayImages)>>]

\* Mutant of toggleShuffle: the re-located element is loaded again.
toggleShuffleReloads(w, rnd) ==
  LET w1 == [w EXCEPT !.this.isShuffled = ~@]
      currentImage == At(w1.this.displayImages, w1.this.currentIndex)
      w2 == updateDisplayOrder(w1, rnd)
      newIndex == IndexOf(w2.this.displayImages, currentImage)
      w3 == [w2 EXCEPT !.this.currentIndex = IF newIndex >= 0 THEN newIndex ELSE 0]
      w4 == [w3 EXCEPT !.dom.imageCounter = <<w3.this.currentIndex + 1, Len(w3.this.displayImages)>>]
  IN [w4 EXCEPT !.env.loads =
        Append(@, [img |-> currentImage, next |-> Other(w4.this.activeSlide)])]

\* Mutant of toggleShuffle: the position is what indexOf returned, -1 too.
toggleShuffleNoFallback(w, rnd) ==
  LET w1 == [w EXCEPT !.this.isShuffled = ~@]
      currentImage == At(w1.this.displayImages, w1.this.currentIndex)
      w2 == updateDisplayOrder(w1, rnd)
      w3 == [w2 EXCEPT !.this.currentIndex = IndexOf(w2.this.displayImages, currentImage)]
  IN [w3 EXCEPT !.dom.imageCounter = <<w3.this.currentIndex + 1, Len(w3.this.displayImages)>>]

toggleShuffle(w, rnd) ==
  LET w1 == [w EXCEPT !.this.isShuffled = ~@]
      currentImage == At(w1.this.displayImages, w1.this.currentIndex)
      w2 == updateDisplayOrder(w1, rnd)
      newIndex == IndexOf(w2.this.displayImages, currentImage)
      w3 == [w2 EXCEPT !.this.currentIndex = IF newIndex >= 0 THEN newIndex ELSE 0]
  IN [w3 EXCEPT !.dom.imageCounter = <<w3.this.currentIndex + 1, Len(w3.this.displayImages)>>]

\* Mutant of WrapIndex: index % length alone, negative for index -1.
WrapIndexRemainderOnly(index, length) == JsRem(index, length)

\* ((index % length) + length) % length
WrapIndex(index, length) == JsRem(JsRem(index, length) + length, length)

showImage(w, index) ==
  IF Len(w.this.displayImages) = 0
    THEN w
    ELSE LET length == Len(w.this.displayImages)
             w1 == [w EXCEPT !.this.currentIndex = WrapIndex(index, length)]
             imageName == At(w1.this.displayImages, w1.this.currentIndex)
             \* new Image() with its onload closure over nextSlide / currentSlide
             w2 == [w1 EXCEPT !.env.loads =
                       Append(@, [img |-> imageName, next |-> Other(w1.this.activeSlide)])]
             w3 == [w2 EXCEPT !.dom.imageCounter = <<w2.this.currentIndex + 1, length>>]
         IN IF w3.this.showMetadata THEN fetchMetadata(w3) ELSE w3

\* Mutant of imgOnload: the outgoing slot keeps its active mark.
imgOnloadKeepsActive(w, k) ==
  LET ld == w.env.loads[k]
      w1 == [w EXCEPT !.dom.slideHtml[ld.next] = ld.img]
      w3 == [w1 EXCEPT !.dom.slideActive[ld.next] = TRUE]
      w4 == [w3 EXCEPT !.this.activeSlide = Other(@)]
  IN [w4 EXCEPT !.env.loads = [i \in 1..(Len(@) - 1) |-> IF i < k THEN @[i] ELSE @[i + 1]]]

\* img.onload of the load at position k of the loads in flight.
imgOnload(w, k) ==
  LET ld == w.env.loads[k]
      w1 == [w EXCEPT !.dom.slideHtml[ld.next] = ld.img]
      w2 == [w1 EXCEPT !.dom.slideActive[Other(ld.next)] = FALSE]
      w3 == [w2 EXCEPT !.dom.slideActive[ld.next] = TRUE]
      w4 == [w3 EXCEPT !.this.activeSlide = Other(@)]
  IN [w4 EXCEPT !.env.loads = [i \in 1..(Len(@) - 1) |-> IF i < k THEN @[i] ELSE @[i + 1]]]

startTimer(w) ==
  LET id == FreshId({t.id : t \in w.env.intervals})
  IN [w EXCEPT !.this.timer = id,
               !.env.intervals = @ \cup {[id |-> id, period |-> w.this.interval]}]

stopTimer(w) ==
  IF w.this.timer # Null
    THEN [w EXCEPT !.env.intervals = {t \in @ : t.id # w.this.timer},
                   !.this.timer = Null]
    ELSE w

restartTimer(w) == startTimer(stopTimer(w))

\* Mutant of next: the position stops at the last element.
nextStopsAtEnd(w) ==
  LET last_ == Len(w.this.displayImages) - 1
      w1 == showImage(w, IF w.this.currentIndex >= last_ THEN last_ ELSE w.this.currentIndex + 1)
  IN IF w1.this.isPlaying THEN restartTimer(w1) ELSE w1

next(w) ==
  LET w1 == showImage(w, w.this.currentIndex + 1)
  IN IF w1.this.isPlaying THEN restartTimer(w1) ELSE w1

\* Mutant of prev: the position stops at 0 instead of wrapping.
prevClamps(w) ==
  LET w1 == showImage(w, IF w.this.currentIndex = 0 THEN 0 ELSE w.this.currentIndex - 1)
  IN IF w1.this.isPlaying THEN restartTimer(w1) ELSE w1

prev(w) ==
  LET w1 == showImage(w, w.this.currentIndex - 1)
  IN IF w1.this.isPlaying THEN restartTimer(w1) ELSE w1

togglePlayPause(w) ==
  LET w1 == [w EXCEPT !.this.isPlaying = ~@]
  IN IF w1.this.isPlaying
       THEN startTimer([w1 EXCEPT !.dom.playPauseBtn = "Pause"])
       ELSE stopTimer([w1 EXCEPT !.dom.playPauseBtn = "Play"])

changeInterval(w, value) ==
  LET w1 == [w EXCEPT !.this.interval = value]
  IN IF w1.this.isPlaying THEN restartTimer(w1) ELSE w1

\* granted: whether the browser grants the fullscreen request (a refusal is
\* caught and logged).
requestFullscreen(w, granted) ==
  IF granted THEN [w EXCEPT !.dom.fullscreen = TRUE] ELSE w

toggleFullscreen(w, granted) ==
  IF ~w.dom.fullscreen
    THEN requestFullscreen(w, granted)
    ELSE [w EXCEPT !.dom.fullscreen = FALSE]

start(w, checked, rnd, granted) ==
  LET w1 == [w EXCEPT !.this.isShuffled = checked]
      w2 == updateDisplayOrder(w1, rnd)
      w3 == [w2 EXCEPT !.dom.startHidden = TRUE]
      w4 == showImage(w3, 0)
      w5 == startTimer(w4)
  IN requestFullscreen(w5, granted)

\* Mutant of showCursor: the pending timeout is not cleared.
showCursorKeepsPending(w) ==
  LET w1 == [w EXCEPT !.dom.showCursor = TRUE]
      id == FreshId(w1.env.timeouts \cup {w1.this.cursorTimeout})
  IN [w1 EXCEPT !.this.cursorTimeout = id, !.env.timeouts = @ \cup {id}]

showCursor(w) ==
  LET w1 == [w EXCEPT !.dom.showCursor = TRUE]
      w2 == IF w1.this.cursorTimeout # Null
              THEN [w1 EXCEPT !.env.timeouts = @ \ {w1.this.cursorTimeout}]
              ELSE w1
      id == FreshId(w2.env.timeouts \cup {w2.this.cursorTimeout})
  IN [w2 EXCEPT !.this.cursorTimeout = id, !.env.timeouts = @ \cup {id}]

\* The callback of the timeout showCursor set.
cursorTimeoutFired(w, id) ==
  [w EXCEPT !.dom.showCursor = FALSE, !.env.timeouts = @ \ {id}]

\* What the metadata element shows: nothing yet ("empty"), the metadata of
\* the image called name as displayMetadata renders it ("metadata"), or one
\* of the two messages of fetchMetadata ("unavailable", "failed").
Panel(kind, name) == [kind |-> kind, name |-> name]

updateMetadataButton(w) ==
  [w EXCEPT !.dom.metadataBtn = IF w.this.showMetadata THEN "Info*" ELSE "Info"]

toggleMetadata(w) ==
  LET w1 == updateMetadataButton([w EXCEPT !.this.showMetadata = ~@])
  IN IF w1.this.showMetadata
       THEN fetchMetadata([w1 EXCEPT !.dom.metadataEnabled = TRUE])
       ELSE [w1 EXCEPT !.dom.metadataEnabled = FALSE]

\* Mutant of metadataSettled: a response for an image that is no longer the
\* current one is dropped.
metadataSettledChecked(w, k, outcome) ==
  LET name == w.env.fetches[k]
      html == IF outcome = "ok"
                THEN IF name = At(w.this.displayImages, w.this.currentIndex)
                       THEN Panel("metadata", name)
                       ELSE w.dom.metadataHtml
              ELSE IF outcome = "notok" THEN Panel("unavailable", Undefined)
              ELSE Panel("failed", Undefined)
  IN [w EXCEPT !.dom.metadataHtml = html,
               !.env.fetches = [i \in 1..(Len(@) - 1) |-> IF i < k THEN @[i] ELSE @[i + 1]]]

\* The continuation of fetchMetadata once the fetch at position k settles:
\* outcome is "ok" (displayMetadata(data)), "notok" (!response.ok) or
\* "error" (the fetch threw).
metadataSettled(w, k, outcome) ==
  LET name == w.env.fetches[k]
      html == IF outcome = "ok" THEN Panel("metadata", name)
              ELSE IF outcome = "notok" THEN Panel("unavailable", Undefined)
              ELSE Panel("failed", Undefined)
  IN [w EXCEPT !.dom.metadataHtml = html,
               !.env.fetches = [i \in 1..(Len(@) - 1) |-> IF i < k THEN @[i] ELSE @[i + 1]]]

\* The continuation of loadImages once GET /api/images has answered.
loadImages(w, list) ==
  LET w1 == [w EXCEPT !.this.images = list, !.env.listFetch = "done"]
  IN IF Len(w1.this.images) = 0
       THEN [w1 EXCEPT !.dom.imageCount = "No images found in the folder",
                       !.dom.startDisabled = TRUE,
                       !.dom.startBtn = "No Images"]
       ELSE [w1 EXCEPT !.dom.imageCount = <<Len(w1.this.images), "images found">>]

\* The catch branch of loadImages.
loadImagesFailed(w) ==
  [w EXCEPT !.dom.imageCount = "Error loading images", !.env.listFetch = "failed"]

handleKeydown(w, key, rnd, granted) ==
  CASE key \in {"ArrowRight", " "} -> next(w)
    [] key = "ArrowLeft" -> prev(w)
    [] key = "Escape" -> IF w.dom.startHidden THEN togglePlayPause(w) ELSE w
    [] key \in {"f", "F"} -> toggleFullscreen(w, granted)
    [] key \in {"s", "S"} -> toggleShuffle(w, rnd)
    [] key \in {"i", "I"} -> toggleMetadata(w)
    [] OTHER -> w

handleTouch(w, touchX, screenWidth) ==
  IF touchX * 10 > screenWidth * 7 THEN next(w)
  ELSE IF touchX * 10 < screenWidth * 3 THEN prev(w)
  ELSE togglePlayPause(w)

(***************************************************************************)
(* The server (src/server.ts).  A string is the sequence of its            *)
(* characters, so that path.resolve(...).startsWith(...) compares          *)
(* characters as the code does.                                            *)
(***************************************************************************)
\* The working directory path.resolve falls back to for a relative path.
Cwd == <<"/", "w">>

\* createApp's imagesFolder, and its folder name.
RootName == <<"r">>
ImagesFolder == <<"/">> \o RootName

IsAbsolute(path) == Len(path) > 0 /\ path[1] = "/"

StartsWith(str, prefix) ==
  Len(prefix) <= Len(str) /\ SubSeq(str, 1, Len(prefix)) = prefix

\* path.split('/')
RECURSIVE SplitPath(_)
SplitPath(path) ==
  IF \A k \in 1..Len(path) : path[k] # "/"
    THEN <<path>>
    ELSE LET k == CHOOSE k \in 1..Len(path) :
                    path[k] = "/" /\ \A m \in 1..(k - 1) : path[m] # "/"
         IN <<SubSeq(path, 1, k - 1)>> \o SplitPath(SubSeq(path, k + 1, Len(path)))

RECURSIVE JoinParts(_)
JoinParts(parts) ==
  IF parts = <<>> THEN <<>>
  ELSE IF Len(parts) = 1 THEN parts[1]
  ELSE parts[1] \o <<"/">> \o JoinParts(Tail(parts))

\* Node's normalizeString: "." and empty segments dropped, ".." removing the
\* segment before it; above the top ".." is kept (relative) or dropped.
RECURSIVE NormalizeParts(_, _, _)
NormalizeParts(parts, out, allowAboveRoot) ==
  IF parts = <<>> THEN out
  ELSE LET c == Head(parts)
           rest == Tail(parts)
       IN IF c = <<>> \/ c = <<".">>
            THEN NormalizeParts(rest, out, allowAboveRoot)
          ELSE IF c = <<".", ".">>
            THEN IF Len(out) > 0 /\ out[Len(out)] # <<".", ".">>
                   THEN NormalizeParts(rest, SubSeq(out, 1, Len(out) - 1), allowAboveRoot)
                 ELSE IF allowAboveRoot
                   THEN NormalizeParts(rest, Append(out, c), allowAboveRoot)
                 ELSE NormalizeParts(rest, out, allowAboveRoot)
          ELSE NormalizeParts(rest, Append(out, c), allowAboveRoot)

normalizeString(path, allowAboveRoot) ==
  JoinParts(NormalizeParts(SplitPath(path), <<>>, allowAboveRoot))

\* path.normalize: a trailing separator is kept.
PathNormalize(path) ==
  IF Len(path) = 0 THEN <<".">>
  ELSE LET isAbs == IsAbsolute(path)
           trailing == path[Len(path)] = "/"
           p == normalizeString(path, ~isAbs)
       IN IF Len(p) = 0
            THEN IF isAbs THEN <<"/">> ELSE IF trailing THEN <<".", "/">> ELSE <<".">>
            ELSE LET q == IF trailing THEN p \o <<"/">> ELSE p
                 IN IF isAbs THEN <<"/">> \o q ELSE q

\* path.join(a, b)
PathJoin(a, b) ==
  IF Len(a) = 0 /\ Len(b) = 0 THEN <<".">>
  ELSE IF Len(a) = 0 THEN PathNormalize(b)
  ELSE IF Len(b) = 0 THEN PathNormalize(a)
  ELSE PathNormalize(a \o <<"/">> \o b)

\* path.resolve(path): absolute, normalized, no trailing separator.
PathResolve(path) ==
  LET full == IF IsAbsolute(path) THEN path ELSE Cwd \o <<"/">> \o path
  IN <<"/">> \o normalizeString(full, FALSE)

\* 'x'.toLowerCase() of one character: the ASCII capitals change.
UpperLetters ==
  <<"A", "B", "C", "D", "E", "F", "G", "H", "I", "J", "K", "L", "M",
    "N", "O", "P", "Q", "R", "S", "T", "U", "V", "W", "X", "Y", "Z">>
LowerLetters ==
  <<"a", "b", "c", "d", "e", "f", "g", "h", "i", "j", "k", "l", "m",
    "n", "o", "p", "q", "r", "s", "t", "u", "v", "w", "x", "y", "z">>

LowerChar(c) ==
  IF \E k \in 1..Len(UpperLetters) : UpperLetters[k] = c
    THEN LowerLetters[CHOOSE k \in 1..Len(UpperLetters) : UpperLetters[k] = c]
    ELSE c

ToLowerCase(str) == [k \in 1..Len(str) |-> LowerChar(str[k])]

\* The last segment of a path, trailing separators ignored.
Basename(path) ==
  LET parts == SelectSeq(SplitPath(path), LAMBDA c : c # <<>>)
  IN IF parts = <<>> THEN <<>> ELSE parts[Len(parts)]

\* path.extname: from the last "." of the basename; empty when there is
\* none, when it is the first character, or for "..".
PathExtname(path) ==
  LET base == Basename(path)
      dots == {k \in 1..Len(base) : base[k] = "."}
  IN IF dots = {} \/ base = <<".", ".">> THEN <<>>
     ELSE LET k == CHOOSE k \in dots : \A m \in dots : m <= k
          IN IF k = 1 THEN <<>> ELSE SubSeq(base, k, Len(base))

IMAGE_EXTENSIONS ==
  << <<".", "j", "p", "g">>, <<".", "j", "p", "e", "g">>, <<".", "p", "n", "g">>,
     <<".", "g", "i", "f">>, <<".", "w", "e", "b", "p">>, <<".", "b", "m", "p">>,
     <<".", "s", "v", "g">> >>

\* Mutant of isImageFile: the extension is compared as written.
isImageFileCaseSensitive(filename) ==
  \E k \in 1..Len(IMAGE_EXTENSIONS) : IMAGE_EXTENSIONS[k] = PathExtname(filename)

isImageFile(filename) ==
  LET ext == ToLowerCase(PathExtname(filename))
  IN \E k \in 1..Len(IMAGE_EXTENSIONS) : IMAGE_EXTENSIONS[k] = ext

\* Express decodes a route parameter with decodeURIComponent; the escapes the
\* model's requests use are %2F and %2E.
RECURSIVE decodeURIComponent(_)
decodeURIComponent(raw) ==
  IF raw = <<>> THEN <<>>
  ELSE IF Len(raw) >= 3 /\ SubSeq(raw, 1, 3) = <<"%", "2", "F">>
    THEN <<"/">> \o decodeURIComponent(SubSeq(raw, 4, Len(raw)))
  ELSE IF Len(raw) >= 3 /\ SubSeq(raw, 1, 3) = <<"%", "2", "E">>
    THEN <<".">> \o decodeURIComponent(SubSeq(raw, 4, Len(raw)))
  ELSE <<Head(raw)>> \o decodeURIComponent(Tail(raw))

\* encodeURIComponent as showImage applies it to an image name: letters,
\* digits and "." stay, "/" and "%" are escaped.
RECURSIVE encodeURIComponent(_)
encodeURIComponent(name) ==
  IF name = <<>> THEN <<>>
  ELSE (IF Head(name) = "/" THEN <<"%", "2", "F">>
        ELSE IF Head(name) = "%" THEN <<"%", "2", "5">>
        ELSE <<Head(name)>>) \o encodeURIComponent(Tail(name))

(***************************************************************************)
(* The filesystem: a set of entries [path, kind, data], path an absolute   *)
(* normalized string.  A directory exists when it has an entry, when an    *)
(* entry lies below it, or when it is "/".  The images folder has an entry *)
(* of its own, which says whether its content may be listed.               *)
(***************************************************************************)
IsFile(fs, path) == \E e \in fs : e.path = path /\ e.kind = "file"

IsDirectory(fs, path) ==
  \/ path = <<"/">>
  \/ \E e \in fs : e.path = path /\ e.kind = "dir"
  \/ \E e \in fs : StartsWith(e.path, path \o <<"/">>)

RootDir(readable) ==
  [path |-> ImagesFolder, kind |-> "dir", data |-> [readable |-> readable]]

\* The names of the entries directly in a folder, files and folders alike.
Children(fs, folder) ==
  {Head(SplitPath(SubSeq(e.path, Len(folder) + 2, Len(e.path)))) :
     e \in {x \in fs : StartsWith(x.path, folder \o <<"/">>)}}

\* The orders a set of names can be listed in.
Orderings(names) ==
  {o \in [1..Cardinality(names) -> names] :
     \A i, j \in 1..Cardinality(names) : o[i] = o[j] => i = j}

\* fs.readdirSync(folder): what the call can do.  It throws when the folder
\* is missing or is no directory (ENOENT, ENOTDIR) or may not be listed
\* (EACCES); otherwise it returns the names in the order the system keeps.
readdirSync(fs, folder) ==
  IF \/ ~IsDirectory(fs, folder)
     \/ \E e \in fs : e.path = folder /\ e.kind = "dir" /\ e.data = [readable |-> FALSE]
    THEN {[throws |-> TRUE, files |-> <<>>]}
    ELSE {[throws |-> FALSE, files |-> o] : o \in Orderings(Children(fs, folder))}

Entry(fs, path) == CHOOSE e \in fs : e.path = path

\* fs.existsSync(path): a path with a trailing separator names a directory.
existsSync(fs, path) ==
  LET target == PathResolve(path)
  IN IF Len(path) > 1 /\ path[Len(path)] = "/"
       THEN IsDirectory(fs, target)
       ELSE IsFile(fs, target) \/ IsDirectory(fs, target)

\* getImageFiles(folder), listing being what readdirSync(folder) did.
getImageFiles(listing) ==
  IF listing.throws THEN <<>> ELSE SelectSeq(listing.files, isImageFile)

\* The exif bundle getImageMetadata builds from the tags ExifReader found.
ExifFields(tags) ==
  {f \in {"camera", "lens", "dateTaken", "aperture", "shutterSpeed", "iso",
          "focalLength", "flash", "gps", "software", "artist", "copyright"} :
     CASE f = "camera" -> tags \cap {"Make", "Model"} # {}
       [] f = "lens" -> "LensModel" \in tags
       [] f = "dateTaken" -> tags \cap {"DateTimeOriginal", "DateTime"} # {}
       [] f = "aperture" -> tags \cap {"FNumber", "ApertureValue"} # {}
       [] f = "shutterSpeed" -> "ExposureTime" \in tags
       [] f = "iso" -> "ISOSpeedRatings" \in tags
       [] f = "focalLength" -> "FocalLength" \in tags
       [] f = "flash" -> "Flash" \in tags
       [] f = "gps" -> {"Latitude", "Longitude"} \subseteq tags
       [] f = "software" -> "Software" \in tags
       [] f = "artist" -> "Artist" \in tags
       [] f = "copyright" -> "Copyright" \in tags}

\* null where an object is expected: a returned value, a body, a content.
NullObject == [null |-> TRUE]

\* Mutant of getImageMetadata: a failing sizeOf fails the whole result.
getImageMetadataAllOrNothing(fs, filepath, filename) ==
  IF ~IsFile(fs, filepath) \/ ~Entry(fs, filepath).data.sized THEN NullObject
  ELSE LET data == Entry(fs, filepath).data
           exifData == IF data.tagged THEN ExifFields(data.tags) ELSE {}
       IN [filename |-> filename, width |-> data.width, height |-> data.height,
           size |-> data.size, modified |-> data.mtime, type |-> data.type,
           exif |-> IF exifData # {} THEN exifData ELSE {"absent"}]

\* Mutant of getImageMetadata: the exif bundle is returned as built, empty
\* or not.
getImageMetadataBareExif(fs, filepath, filename) ==
  IF ~IsFile(fs, filepath) THEN NullObject
  ELSE LET data == Entry(fs, filepath).data
       IN [filename |-> filename,
           width |-> IF data.sized THEN data.width ELSE Null,
           height |-> IF data.sized THEN data.height ELSE Null,
           size |-> data.size,
           modified |-> data.mtime,
           type |-> IF data.sized THEN data.type ELSE "null",
           exif |-> IF data.tagged THEN ExifFields(data.tags) ELSE {"absent"}]

\* getImageMetadata(filepath, filename): null when statSync or readFileSync
\* throws (no such file, or a directory); a failing sizeOf (the content is
\* not sized) or ExifReader (not tagged) only leaves its own fields out.
getImageMetadata(fs, filepath, filename) ==
  IF ~IsFile(fs, filepath) THEN NullObject
  ELSE LET data == Entry(fs, filepath).data
           exifData == IF data.tagged THEN ExifFields(data.tags) ELSE {}
       IN [filename |-> filename,
           width |-> IF data.sized THEN data.width ELSE Null,
           height |-> IF data.sized THEN data.height ELSE Null,
           size |-> data.size,
           modified |-> data.mtime,
           type |-> IF data.sized THEN data.type ELSE "null",
           exif |-> IF exifData # {} THEN exifData ELSE {"absent"}]

\* The answer of a route: status 0 while the handler has passed its guards
\* and the file is still to be read.
Answer(status, text, body) == [status |-> status, text |-> text, body |-> body]

Reading(resolvedPath, filename) ==
  [status |-> 0, text |-> "", body |-> [path |-> resolvedPath, filename |-> filename]]

\* Express matches :filename against one path segment: a literal "/" in it,
\* or nothing at all, matches no route.
RouteMatches(raw) == Len(raw) > 0 /\ \A k \in 1..Len(raw) : raw[k] # "/"

NoRoute == Answer(404, "Cannot GET", NullObject)

\* app.get('/images/:filename'), up to the call of res.sendFile.
imageRoute(fs, raw) ==
  IF ~RouteMatches(raw) THEN NoRoute
  ELSE LET filename == decodeURIComponent(raw)
           filepath == PathJoin(ImagesFolder, filename)
           resolvedPath == PathResolve(filepath)
           resolvedFolder == PathResolve(ImagesFolder)
       IN IF ~StartsWith(resolvedPath, resolvedFolder)
            THEN Answer(403, "Access denied", NullObject)
          ELSE IF existsSync(fs, filepath) /\ isImageFile(filename)
            THEN Reading(resolvedPath, filename)
          ELSE Answer(404, "Image not found", NullObject)

\* Mutant of sendFile: a directory is an error nobody handles.
sendFileDirectoryFails(fs, resolvedPath) ==
  IF IsFile(fs, resolvedPath)
    THEN Answer(200, "", [bytes |-> Entry(fs, resolvedPath).data.bytes])
  ELSE IF IsDirectory(fs, resolvedPath)
    THEN Answer(500, "EISDIR", NullObject)
  ELSE Answer(404, "Not Found", NullObject)

\* res.sendFile(resolvedPath): the bytes of a regular file; for a directory
\* Express passes on to the next handler and for a missing file to the error
\* handler, both answering 404.
sendFile(fs, resolvedPath) ==
  IF IsFile(fs, resolvedPath)
    THEN Answer(200, "", [bytes |-> Entry(fs, resolvedPath).data.bytes])
  ELSE IF IsDirectory(fs, resolvedPath) THEN NoRoute
  ELSE Answer(404, "Not Found", NullObject)

\* app.get('/api/images/:filename/metadata'), up to the call of
\* getImageMetadata.
metadataRoute(fs, raw) ==
  IF ~RouteMatches(raw) THEN NoRoute
  ELSE LET filename == decodeURIComponent(raw)
           filepath == PathJoin(ImagesFolder, filename)
           resolvedPath == PathResolve(filepath)
           resolvedFolder == PathResolve(ImagesFolder)
       IN IF ~StartsWith(resolvedPath, resolvedFolder)
            THEN Answer(403, "Access denied", NullObject)
          ELSE IF ~existsSync(fs, filepath) \/ ~isImageFile(filename)
            THEN Answer(404, "Image not found", NullObject)
          ELSE Reading(resolvedPath, filename)

\* Mutant of listRoute: a failing enumeration is not caught.
listRouteUncaught(listing) ==
  IF listing.throws
    THEN Answer(500, "Internal Server Error", NullObject)
    ELSE Answer(200, "", [images |-> SelectSeq(listing.files, isImageFile)])

\* app.get('/api/images')
listRoute(listing) == Answer(200, "", [images |-> getImageFiles(listing)])

\* Mutant of metadataAnswer: a file that cannot be read is answered as a
\* missing one.
metadataAnswerNotFound(fs, resolvedPath, filename) ==
  LET metadata == getImageMetadata(fs, resolvedPath, filename)
  IN IF metadata # NullObject
       THEN Answer(200, "", metadata)
       ELSE Answer(404, "Image not found", NullObject)

\* The rest of the metadata route: the answer built from getImageMetadata.
metadataAnswer(fs, resolvedPath, filename) ==
  LET metadata == getImageMetadata(fs, resolvedPath, filename)
  IN IF metadata # NullObject
       THEN Answer(200, "", metadata)
       ELSE Answer(500, "Failed to read metadata", NullObject)

\* The first and the second half of a request to an endpoint.
RouteGuards(fs, ep, raw) ==
  IF ep = "image" THEN imageRoute(fs, raw) ELSE metadataRoute(fs, raw)

RouteRead(fs, ep, open) ==
  IF ep = "image" THEN sendFile(fs, open.body.path)
  ELSE metadataAnswer(fs, open.body.path, open.body.filename)

(***************************************************************************)
(* The state a new Slideshow leaves: the constructor's fields, the page's  *)
(* elements as the tests' setupDOM builds them, and the image list being   *)
(* fetched.                                                                *)
(***************************************************************************)
InitThis ==
  [images |-> <<>>, displayImages |-> <<>>, currentIndex |-> 0,
   interval |-> DefaultInterval, timer |-> Null, isPlaying |-> TRUE,
   isShuffled |-> TRUE, activeSlide |-> 1, cursorTimeout |-> Null,
   showMetadata |-> FALSE]

InitDom ==
  [startHidden |-> FALSE, startDisabled |-> FALSE, startBtn |-> "Start Slideshow",
   imageCount |-> "Loading...", shuffleBtn |-> "Shuffle", playPauseBtn |-> "Pause",
   metadataBtn |-> "Info", metadataEnabled |-> FALSE, metadataHtml |-> Panel("empty", Undefined),
   slideHtml |-> <<Undefined, Undefined>>, slideActive |-> <<FALSE, FALSE>>,
   imageCounter |-> <<>>, showCursor |-> FALSE, fullscreen |-> FALSE]

InitEnv ==
  [intervals |-> {}, timeouts |-> {}, loads |-> <<>>, fetches |-> <<>>,
   listFetch |-> "pending"]

\* The server starts on an empty images folder with no request received.
InitDisk == {RootDir(TRUE)}

InitReq == [ep |-> "none", raw |-> <<>>, phase |-> "idle"]

Init == /\ this = InitThis /\ dom = InitDom /\ env = InitEnv /\ last = "constructor"
        /\ disk = InitDisk
        /\ req = InitReq
        /\ resp = Answer(0, "", NullObject) /\ resp2 = Answer(0, "", NullObject)
        /\ call = [fn |-> "none", arg |-> <<>>, result |-> FALSE]
        /\ conc = [req |-> InitReq, resp |-> Answer(0, "", NullObject)]

(***************************************************************************)
(* Events.  Install(w, op) makes w the next state and records in the       *)
(* history variable last the handler the event ran.  Room is the bound on  *)
(* the browser's resources: an event is delivered while fewer than         *)
(* MaxLoads image loads and fewer than MaxFetches metadata requests are in *)
(* flight and fewer than MaxTimers intervals are alive.                    *)
(***************************************************************************)
Install(w, op) == /\ this' = w.this /\ dom' = w.dom /\ env' = w.env /\ last' = op
                  /\ UNCHANGED <<srvVars, call, conc>>

Room == /\ Len(env.loads) < MaxLoads
        /\ Len(env.fetches) < MaxFetches
        /\ Cardinality(env.intervals) < MaxTimers

\* The handler handleKeydown dispatches a key to.
KeyHandler(key) ==
  CASE key \in {"ArrowRight", " "} -> "next"
    [] key = "ArrowLeft" -> "prev"
    [] key = "Escape" -> IF dom.startHidden THEN "togglePlayPause" ELSE "none"
    [] key \in {"f", "F"} -> "toggleFullscreen"
    [] key \in {"s", "S"} -> "toggleShuffle"
    [] key \in {"i", "I"} -> "toggleMetadata"
    [] OTHER -> "none"

\* The handler handleTouch dispatches a touch to.
TouchHandler(touchX, screenWidth) ==
  IF touchX * 10 > screenWidth * 7 THEN "next"
  ELSE IF touchX * 10 < screenWidth * 3 THEN "prev"
  ELSE "togglePlayPause"

\* The random draws and the browser's answer a handler can consume.
DrawsFor(op) == IF op \in {"start", "toggleShuffle"}
                  THEN Rnds(Len(this.images))
                  ELSE {<<>>}
GrantsFor(op) == IF op \in {"start", "toggleFullscreen"} THEN BOOLEAN ELSE {FALSE}

ListLoaded == /\ env.listFetch = "pending"
              /\ \E list \in ServerLists : Install(loadImages(W, list), "loadImages")

ListFailed == /\ env.listFetch = "pending"
              /\ Install(loadImagesFailed(W), "loadImages")

\* What last records of a click on Start: the handler, and the state of the
\* shuffle checkbox it read when that was unchecked.
StartOp(checked) == IF checked THEN "start" ELSE "start, unchecked"

\* The start button takes clicks while its screen is shown and it is enabled.
StartClick == /\ Room
              /\ ~dom.startHidden /\ ~dom.startDisabled
              /\ \E checked \in BOOLEAN, granted \in GrantsFor("start") :
                   \E rnd \in DrawsFor("start") :
                     Install(start(W, checked, rnd, granted), StartOp(checked))

PrevClick == Room /\ Install(prev(W), "prev")

NextClick == Room /\ Install(next(W), "next")

PlayPauseClick == Room /\ Install(togglePlayPause(W), "togglePlayPause")

IntervalChange == /\ Room
                  /\ \E value \in IntervalOptions :
                       Install(changeInterval(W, value), "changeInterval")

ShuffleClick == /\ Room
                /\ \E rnd \in DrawsFor("toggleShuffle") :
                     Install(toggleShuffle(W, rnd), "toggleShuffle")

FullscreenClick == /\ Room
                   /\ \E granted \in GrantsFor("toggleFullscreen") :
                        Install(toggleFullscreen(W, granted), "toggleFullscreen")

Keydown == /\ Room
           /\ \E key \in ControlKeys :
                \E granted \in GrantsFor(KeyHandler(key)), rnd \in DrawsFor(KeyHandler(key)) :
                  Install(handleKeydown(W, key, rnd, granted),
                          IF KeyHandler(key) = "none" THEN last ELSE KeyHandler(key))

Touch == /\ Room
         /\ \E touchX \in 0..ScreenWidth :
              Install(handleTouch(W, touchX, ScreenWidth), TouchHandler(touchX, ScreenWidth))

\* A live interval fires: its callback is this.next().
Tick == /\ Room
        /\ \E t \in env.intervals : Install(next(W), "next")

ImgOnload == \E k \in 1..Len(env.loads) : Install(imgOnload(W, k), "imgOnload")

Next == \/ ListLoaded
        \/ ListFailed
        \/ Keydown
        \/ Touch
        \/ StartClick
        \/ PrevClick
        \/ NextClick
        \/ PlayPauseClick
        \/ IntervalChange
        \/ ShuffleClick
        \/ FullscreenClick
        \/ Tick
        \/ ImgOnload

Spec == Init /\ [][Next]_vars

(***************************************************************************)
(* The metadata panel.  SpecPanel delivers the events that reach           *)
(* fetchMetadata (the Info button, the keys i and I, Start, navigation     *)
(* and the slide timer) and lets the requests in flight settle in any      *)
(* order, each with any of its three outcomes.                             *)
(***************************************************************************)
MetadataClick == Room /\ Install(toggleMetadata(W), "toggleMetadata")

MetadataKeydown == /\ Room
                   /\ \E key \in Keys \ ControlKeys :
                        Install(handleKeydown(W, key, <<>>, FALSE), KeyHandler(key))

\* last records displayMetadata when the response is rendered and
\* fetchMetadata when one of its two messages is shown instead.
MetadataSettled == \E k \in 1..Len(env.fetches), outcome \in {"ok", "notok", "error"} :
                     Install(metadataSettled(W, k, outcome),
                             IF outcome = "ok" THEN "displayMetadata" ELSE "fetchMetadata")

NextPanel == \/ ListLoaded
             \/ StartClick
             \/ PrevClick
             \/ NextClick
             \/ Tick
             \/ ImgOnload
             \/ MetadataClick
             \/ MetadataKeydown
             \/ MetadataSettled

SpecPanel == Init /\ [][NextPanel]_vars

\* The events of SpecPanel and the shuffle button.
SpecToggles == Init /\ [][NextPanel \/ ShuffleClick]_vars

(***************************************************************************)
(* The two slide slots.  SpecSlides lets showImage run again while earlier *)
(* images are still loading, up to MaxPending loads in flight, and lets    *)
(* the loads complete in any order.                                        *)
(***************************************************************************)
ShowNext == /\ Len(env.loads) < MaxPending /\ Cardinality(env.intervals) < MaxTimers
            /\ Install(next(W), "next")

ShowPrev == /\ Len(env.loads) < MaxPending /\ Cardinality(env.intervals) < MaxTimers
            /\ Install(prev(W), "prev")

NextSlides == \/ ListLoaded
              \/ StartClick
              \/ ShowNext
              \/ ShowPrev
              \/ ImgOnload

SpecSlides == Init /\ [][NextSlides]_vars

(***************************************************************************)
(* Unattended playback.  Under SpecPlay the only input is the click on     *)
(* Start; after it the interval fires again and again (setInterval) and    *)
(* every image load completes.                                             *)
(***************************************************************************)
NextPlay == \/ ListLoaded
            \/ StartClick
            \/ Tick
            \/ ImgOnload

SpecPlay == Init /\ [][NextPlay]_vars /\ WF_vars(Tick) /\ WF_vars(ImgOnload)

(***************************************************************************)
(* The idle cursor.  SpecCursor delivers pointer movements and lets the    *)
(* timeout showCursor set fire, between the events of a running slideshow. *)
(***************************************************************************)
MouseMove == Install(showCursor(W), "showCursor")

CursorTimeout == \E id \in env.timeouts : Install(cursorTimeoutFired(W, id), "cursorTimeout")

NextCursor == \/ ListLoaded
              \/ StartClick
              \/ PrevClick
              \/ NextClick
              \/ ImgOnload
              \/ MouseMove
              \/ CursorTimeout

SpecCursor == Init /\ [][NextCursor]_vars

(***************************************************************************)
(* The server's world.  Files: what the folders can hold, two images, a    *)
(* text file, an image in a subfolder whose content no reader parses and   *)
(* a folder named like an image inside the images folder; outside it an    *)
(* image in a sibling folder whose name begins with the images folder's,   *)
(* and one in an unrelated folder.                                         *)
(***************************************************************************)
GoodData == [bytes |-> 1, size |-> 1, mtime |-> 1,
             sized |-> TRUE, width |-> 2, height |-> 1, type |-> "jpg",
             tagged |-> TRUE, tags |-> {"Make", "Latitude", "Longitude"}]
PlainData == [bytes |-> 2, size |-> 2, mtime |-> 1,
              sized |-> FALSE, width |-> 0, height |-> 0, type |-> "",
              tagged |-> FALSE, tags |-> {}]
SecretData == [bytes |-> 3, size |-> 3, mtime |-> 1,
               sized |-> TRUE, width |-> 1, height |-> 1, type |-> "jpg",
               tagged |-> TRUE, tags |-> {}]

P_a == <<"/", "r", "/", "a", ".", "j", "p", "g">>
P_t == <<"/", "r", "/", "t", ".", "t", "x", "t">>
P_b == <<"/", "r", "/", "d", "/", "b", ".", "P", "N", "G">>
P_d == <<"/", "r", "/", "d", ".", "j", "p", "g">>
P_s == <<"/", "r", "x", "/", "s", ".", "j", "p", "g">>
P_p == <<"/", "e", "/", "p", ".", "j", "p", "g">>

InsideFiles ==
  {[path |-> P_a, kind |-> "file", data |-> GoodData],
   [path |-> P_t, kind |-> "file", data |-> PlainData],
   [path |-> P_b, kind |-> "file", data |-> PlainData],
   [path |-> P_d, kind |-> "dir", data |-> NullObject]}

OutsideFiles ==
  {[path |-> P_s, kind |-> "file", data |-> SecretData],
   [path |-> P_p, kind |-> "file", data |-> SecretData]}

\* %2F in a requested name.
Sl == <<"%", "2", "F">>
Up == <<".", ".">>
N_a == <<"a", ".", "j", "p", "g">>
N_b == <<"b", ".", "P", "N", "G">>
N_s == <<"s", ".", "j", "p", "g">>
N_p == <<"p", ".", "j", "p", "g">>
N_none == <<"n", ".", "j", "p", "g">>

\* The :filename part of the URLs requested, as sent.
Requests ==
  {N_a,
   <<"t", ".", "t", "x", "t">>,
   <<"d">> \o Sl \o N_b,
   <<"d", "/">> \o N_b,
   <<"d", ".", "j", "p", "g">>,
   N_none,
   Up,
   Up \o Sl \o <<"r">> \o Sl \o N_a,
   Up \o Sl \o <<"r", "x">> \o Sl \o N_s,
   Up \o Sl \o <<"r", "x">> \o Sl \o N_none,
   Up \o Sl \o <<"e">> \o Sl \o N_p,
   <<"d">> \o Sl \o Up \o Sl \o <<"%", "2", "E", ".">> \o Sl \o <<"e">> \o Sl \o N_p}

Endpoints == {"image", "metadata"}

Toggle(fs, e) == IF e \in fs THEN fs \ {e} ELSE fs \cup {e}

\* The filesystem with the same images folder and nothing outside it.
Twin(fs) ==
  {e \in fs : e.path = ImagesFolder \/ StartsWith(e.path, ImagesFolder \o <<"/">>)}

\* A file appears in or disappears from the images folder.
ChangeInside == /\ IsDirectory(disk, ImagesFolder)
                /\ \E e \in InsideFiles : disk' = Toggle(disk, e)
                /\ UNCHANGED <<feVars, call, conc, req, resp, resp2>>

\* The images folder is removed (once empty), created again, or its
\* permission to list it is taken away or given back.
ChangeRoot == /\ \/ /\ ~IsDirectory(disk, ImagesFolder)
                    /\ disk' = disk \cup {RootDir(TRUE)}
                 \/ /\ disk \cap InsideFiles = {}
                    /\ \E b \in BOOLEAN :
                         RootDir(b) \in disk /\ disk' = disk \ {RootDir(b)}
                 \/ \E b \in BOOLEAN :
                      RootDir(b) \in disk /\ disk' = (disk \ {RootDir(b)}) \cup {RootDir(~b)}
              /\ UNCHANGED <<feVars, call, conc, req, resp, resp2>>

\* GET /api/images arrives and is answered.
ListRequest == /\ req.phase # "reading"
               /\ \E listing \in readdirSync(disk, ImagesFolder) :
                    /\ resp' = listRoute(listing)
                    /\ resp2' = listRoute(
                         IF listing \in readdirSync(Twin(disk), ImagesFolder)
                           THEN listing
                           ELSE CHOOSE l \in readdirSync(Twin(disk), ImagesFolder) : TRUE)
               /\ req' = [ep |-> "list", raw |-> <<>>, phase |-> "done"]
               /\ UNCHANGED <<feVars, call, conc, disk>>

\* A file appears or disappears outside the images folder.
ChangeOutside == /\ \E e \in OutsideFiles : disk' = Toggle(disk, e)
                 /\ UNCHANGED <<feVars, call, conc, req, resp, resp2>>

\* A request arrives and its route handler runs up to its read of the file.
Request == /\ req.phase # "reading"
           /\ \E ep \in Endpoints, raw \in Requests :
                LET a == RouteGuards(disk, ep, raw)
                    b == RouteGuards(Twin(disk), ep, raw)
                IN /\ resp' = a
                   /\ resp2' = b
                   /\ req' = [ep |-> ep, raw |-> raw,
                              phase |-> IF a.status = 0 \/ b.status = 0
                                          THEN "reading" ELSE "done"]
           /\ UNCHANGED <<feVars, call, conc, disk>>

\* Mutant of Read: serving a file removes it.
ReadConsumesFile ==
  /\ req.phase = "reading"
  /\ resp' = IF resp.status = 0 THEN RouteRead(disk, req.ep, resp) ELSE resp
  /\ resp2' = IF resp2.status = 0 THEN RouteRead(Twin(disk), req.ep, resp2) ELSE resp2
  /\ req' = [req EXCEPT !.phase = "done"]
  /\ disk' = {e \in disk : resp.status # 0 \/ e.path # resp.body.path}
  /\ UNCHANGED <<feVars, call, conc>>

\* The file is read and the answer sent.
Read == /\ req.phase = "reading"
        /\ resp' = IF resp.status = 0 THEN RouteRead(disk, req.ep, resp) ELSE resp
        /\ resp2' = IF resp2.status = 0 THEN RouteRead(Twin(disk), req.ep, resp2) ELSE resp2
        /\ req' = [req EXCEPT !.phase = "done"]
        /\ UNCHANGED <<feVars, call, conc, disk>>

NextServer == \/ ChangeInside
              \/ ChangeOutside
              \/ ChangeRoot
              \/ ListRequest
              \/ Request
              \/ Read

SpecServer == Init /\ [][NextServer]_vars

(***************************************************************************)
(* Concurrent requests on a filesystem that no longer changes.  Under      *)
(* SpecReads the images folder is filled before the first request arrives  *)
(* and left alone afterwards; two requests are then in flight at once,     *)
(* their guards and reads interleaved in every order, with requests for    *)
(* the list in between.                                                    *)
(***************************************************************************)
Populate == /\ req.phase = "idle" /\ conc.req.phase = "idle"
            /\ ChangeInside

ConcRequest ==
  /\ conc.req.phase # "reading"
  /\ \E ep \in Endpoints, raw \in {N_a, N_none, <<"d", ".", "j", "p", "g">>} :
       LET a == RouteGuards(disk, ep, raw)
       IN conc' = [req |-> [ep |-> ep, raw |-> raw,
                            phase |-> IF a.status = 0 THEN "reading" ELSE "done"],
                   resp |-> a]
  /\ UNCHANGED <<feVars, srvVars, call>>

ConcRead ==
  /\ conc.req.phase = "reading"
  /\ conc' = [req |-> [conc.req EXCEPT !.phase = "done"],
              resp |-> RouteRead(disk, conc.req.ep, conc.resp)]
  /\ UNCHANGED <<feVars, srvVars, call>>

NextReads == \/ Populate
             \/ ListRequest
             \/ Request
             \/ Read
             \/ ConcRequest
             \/ ConcRead

SpecReads == Init /\ [][NextReads]_vars

(***************************************************************************)
(* Direct calls of isImageFile, on names made of a stem, an extension and  *)
(* a way of writing the extension's letters.                               *)
(***************************************************************************)
UpperChar(c) ==
  IF \E k \in 1..Len(LowerLetters) : LowerLetters[k] = c
    THEN UpperLetters[CHOOSE k \in 1..Len(LowerLetters) : LowerLetters[k] = c]
    ELSE c

\* The ways of writing a word: as it is, in capitals, with a capital first
\* letter, with every second letter a capital.
Casings(word) ==
  {word,
   [k \in 1..Len(word) |-> UpperChar(word[k])],
   [k \in 1..Len(word) |-> IF k = 1 THEN UpperChar(word[k]) ELSE word[k]],
   [k \in 1..Len(word) |-> IF k % 2 = 0 THEN UpperChar(word[k]) ELSE word[k]]}

Stems ==
  {<<"a">>, <<>>, <<"a", ".", "b">>, <<"d", "/", "a">>, <<"a", ".", "j", "p", "g">>,
   <<"p", "n", "g">>}

Suffixes ==
  {<<"j", "p", "g">>, <<"j", "p", "e", "g">>, <<"p", "n", "g">>, <<"g", "i", "f">>,
   <<"w", "e", "b", "p">>, <<"b", "m", "p">>, <<"s", "v", "g">>,
   <<"t", "x", "t">>, <<"p", "d", "f">>, <<"j", "s">>, <<"j", "s", "o", "n">>,
   <<"j", "p">>, <<"j", "p", "g", "x">>, <<"t", "i", "f", "f">>, <<>>}

\* stem.suffix in every casing of the suffix, and the stem alone.
FileNames ==
  Stems \cup {stem \o <<".">> \o ext :
               stem \in Stems, ext \in UNION {Casings(x) : x \in Suffixes}}

IsImageFileCall ==
  /\ \E name \in FileNames :
       call' = [fn |-> "isImageFile", arg |-> name, result |-> isImageFile(name)]
  /\ UNCHANGED <<feVars, srvVars, conc>>

NextNames == IsImageFileCall

SpecNames == Init /\ [][NextNames]_vars

(***************************************************************************)
(* Requests for the metadata of one image file whose content varies: any   *)
(* image decoder result (sized or not) with any EXIF result (ExifReader    *)
(* fails, or finds up to MaxTags of the tags below).  Orientation stands   *)
(* for the tags getImageMetadata does not read.                            *)
(***************************************************************************)
ExifTags ==
  {"Make", "Model", "LensModel", "DateTimeOriginal", "DateTime", "FNumber",
   "ApertureValue", "ExposureTime", "ISOSpeedRatings", "FocalLength", "Flash",
   "Latitude", "Longitude", "Software", "Artist", "Copyright", "Orientation"}

RECURSIVE TagSets(_)
TagSets(n) == IF n = 0 THEN {{}}
              ELSE LET smaller == TagSets(n - 1)
                   IN smaller \cup {t \cup {x} : t \in smaller, x \in ExifTags}

MetadataCall ==
  /\ \E sized \in BOOLEAN, tagged \in BOOLEAN :
       \E tags \in IF tagged THEN TagSets(MaxTags) ELSE {{}} :
         LET data == [bytes |-> 1, size |-> 1, mtime |-> 1,
                      sized |-> sized, width |-> IF sized THEN 2 ELSE 0,
                      height |-> IF sized THEN 1 ELSE 0,
                      type |-> IF sized THEN "jpg" ELSE "",
                      tagged |-> tagged, tags |-> tags]
             fs == {RootDir(TRUE), [path |-> P_a, kind |-> "file", data |-> data]}
         IN call' = [fn |-> "metadata", arg |-> data,
                     result |-> RouteRead(fs, "metadata", RouteGuards(fs, "metadata", N_a))]
  /\ UNCHANGED <<feVars, srvVars, conc>>

SpecMetadata == Init /\ [][MetadataCall]_vars

(***************************************************************************)
(* Direct calls of updateDisplayOrder in shuffle mode, on the canonical    *)
(* list of 0 to MaxShuffled distinct names with every sequence of draws    *)
(* Math.random can give the loop.                                          *)
(***************************************************************************)
ShuffleCall ==
  /\ \E n \in 0..MaxShuffled :
       \E rnd \in Rnds(n) :
         LET w == [W EXCEPT !.this.images = ServerList(n), !.this.isShuffled = TRUE]
         IN call' = [fn |-> "updateDisplayOrder",
                     arg |-> [images |-> ServerList(n), rnd |-> rnd],
                     result |-> updateDisplayOrder(w, rnd).this.displayImages]
  /\ UNCHANGED <<feVars, srvVars, conc>>

SpecShuffle == Init /\ [][ShuffleCall]_vars

(***************************************************************************)
(* Properties of the controller, checked under Spec.                       *)
(***************************************************************************)
Count(arr, x) == Cardinality({k \in 1..Len(arr) : arr[k] = x})

\* a and b hold the same elements the same number of times.
IsPermutation(a, b) ==
  /\ Len(a) = Len(b)
  /\ \A k \in 1..Len(a) : Count(a, a[k]) = Count(b, a[k])
  /\ \A k \in 1..Len(b) : Count(a, b[k]) = Count(b, b[k])

Shown == At(this.displayImages, this.currentIndex)

\* C1: at most one playback tick schedule is alive in every reachable state.
C1_AtMostOnePlaybackTimer == Cardinality(env.intervals) <= 1

\* C2: while the playing flag is false no playback tick schedule is alive.
C2_PausedHasNoTimer == ~this.isPlaying => env.intervals = {}

\* C5 as stated: once the image list has loaded, the display order is a
\* permutation of the canonical list.
C5_LoadedOrderIsPermutation ==
  env.listFetch = "done" => IsPermutation(this.displayImages, this.images)

\* C5 as amended: in every reachable state the display order is empty (not
\* computed yet from the loaded list) or a permutation of the canonical list.
C5_OrderEmptyOrPermutation ==
  this.displayImages = <<>> \/ IsPermutation(this.displayImages, this.images)

C5_ShuffledOrderReached ==
  /\ this.isShuffled
  /\ Len(this.displayImages) >= 3
  /\ this.displayImages # this.images
  /\ IsPermutation(this.displayImages, this.images)

\* C6: after start or toggleShuffle has run updateDisplayOrder, the display
\* order is a permutation of the canonical list in shuffled mode and the
\* canonical list itself in sequential mode.
C6_OrderAfterUpdate ==
  last \in {StartOp(TRUE), StartOp(FALSE), "toggleShuffle"} =>
    IF this.isShuffled
      THEN IsPermutation(this.displayImages, this.images)
      ELSE this.displayImages = this.images

C6_SequentialOrderReached ==
  /\ last = "toggleShuffle"
  /\ ~this.isShuffled
  /\ Len(this.images) >= 3
  /\ this.displayImages = this.images

\* C7: toggleShuffle on a non-empty display order leaves the element at the
\* current position the same element.
C7_ToggleKeepsShown ==
  [][(last' = "toggleShuffle" /\ Len(this.displayImages) > 0) =>
       (Shown' = Shown /\ Shown' # Undefined)]_feVars

C7_ToggledAwayFromFirst ==
  /\ last = "toggleShuffle"
  /\ dom.startHidden
  /\ ~this.isShuffled
  /\ Len(this.displayImages) >= 3
  /\ this.currentIndex = 2

\* C8: with a non-empty display order the current position is in [0, length).
C8_IndexInRange ==
  Len(this.displayImages) > 0 =>
    this.currentIndex \in 0..(Len(this.displayImages) - 1)

C8_WrappedBackward ==
  /\ last = "prev"
  /\ Len(this.displayImages) >= 3
  /\ this.currentIndex = Len(this.displayImages) - 1

\* C9: on a non-empty display order next moves the position from i to
\* (i + 1) mod length and prev from i to (i - 1) mod length.
C9_NextPrevWrap ==
  [][Len(this.displayImages) > 0 =>
       /\ last' = "next" =>
            this.currentIndex' = (this.currentIndex + 1) % Len(this.displayImages)
       /\ last' = "prev" =>
            this.currentIndex' =
              (this.currentIndex + Len(this.displayImages) - 1) % Len(this.displayImages)]_feVars

C9_WrappedForward ==
  /\ last = "next"
  /\ Len(this.displayImages) >= 3
  /\ this.currentIndex = 0


(***************************************************************************)
(* Properties of the server, checked under SpecServer.                     *)
(***************************************************************************)
\* The name the route handler receives for the request being served.
Decoded == decodeURIComponent(req.raw)

\* The folders and the file a name leads to from the images folder, ".." and
\* "." followed.
Canonical(name) == NormalizeParts(SplitPath(ImagesFolder \o <<"/">> \o name), <<>>, FALSE)

\* The name leads neither to the images folder nor to anything below it.
EscapesRoot(name) == Canonical(name) = <<>> \/ Canonical(name)[1] # RootName

\* A request that reached one of the two routes has been answered.
Answered == req.phase = "done" /\ RouteMatches(req.raw)

\* C3: a requested name that, decoded, joined to the images folder and
\* canonicalized, is neither the folder nor a descendant of it is answered
\* 403 "Access denied" by both endpoints, so that no answer carries the bytes
\* or the metadata of a file outside the folder, a sibling folder whose name
\* begins with the folder's name included.
C3_EscapingNamesDenied ==
  (Answered /\ EscapesRoot(Decoded)) =>
    (resp.status = 403 /\ resp.text = "Access denied" /\ resp.body = NullObject)

\* C4: the status of a request does not depend on the filesystem outside the
\* images folder: the filesystem and the one that agrees with it inside the
\* folder and holds nothing outside give every request the same status.
C4_StatusIgnoresOutside ==
  req.phase = "done" => resp.status = resp2.status

\* C10: the guards are evaluated in a fixed order: an escaping name gets 403
\* and no other name does; otherwise an unsupported extension gets 404
\* "Image not found"; otherwise the answer is 404 or 200, or 500 on the
\* metadata endpoint only.  An escaping name whose target is missing or
\* unsupported gets 403, never 404.
C10_GuardOrder ==
  Answered =>
    /\ EscapesRoot(Decoded) <=> resp.status = 403
    /\ (~EscapesRoot(Decoded) /\ ~isImageFile(Decoded)) =>
         (resp.status = 404 /\ resp.text = "Image not found")
    /\ (~EscapesRoot(Decoded) /\ isImageFile(Decoded)) =>
         resp.status \in {404, 200} \cup (IF req.ep = "metadata" THEN {500} ELSE {})


\* The reference of a path below the images folder: the path from the folder
\* on, its components separated by "/".
Reference(path) == SubSeq(path, Len(ImagesFolder) + 2, Len(path))

\* The regular files below the images folder, at any depth, whose name has a
\* supported extension.
ImagesUnderRoot(fs) ==
  {e \in fs : /\ e.kind = "file"
              /\ StartsWith(e.path, ImagesFolder \o <<"/">>)
              /\ isImageFile(e.path)}

Elements(arr) == {arr[k] : k \in 1..Len(arr)}

\* The images folder is missing or may not be listed.
EnumerationFails(fs) ==
  ~IsDirectory(fs, ImagesFolder) \/ RootDir(FALSE) \in fs

\* GET /api/images has been answered, with a list the folder as it is now
\* gives.
ListAnswered ==
  /\ req.ep = "list" /\ req.phase = "done"
  /\ \E listing \in readdirSync(disk, ImagesFolder) : resp = listRoute(listing)

\* The step that sends the answer of a request to one of the two file routes.
Finishes == req'.phase = "done" /\ req' # req /\ req'.ep \in Endpoints

\* C11: whatever the images folder holds, the list GET /api/images answers
\* with holds exactly the references of the regular files with a supported
\* extension below the folder, at any depth, each once.
C11_ListsImagesAtAnyDepth ==
  (ListAnswered /\ ~EnumerationFails(disk)) =>
    /\ Elements(resp.body.images) = {Reference(e.path) : e \in ImagesUnderRoot(disk)}
    /\ Len(resp.body.images) = Cardinality(Elements(resp.body.images))

\* C12: a request whose name is the slash-separated reference of a regular
\* file with a supported extension below the images folder is answered 200,
\* by the image route with the bytes of the file, by the metadata route with
\* metadata whose filename is the reference.
C12_ReferencesAreServed ==
  [][(Finishes /\ \E e \in ImagesUnderRoot(disk) : Reference(e.path) = req'.raw) =>
       /\ resp'.status = 200
       /\ req'.ep = "image" =>
            resp'.body = [bytes |-> Entry(disk, ImagesFolder \o <<"/">> \o req'.raw).data.bytes]
       /\ req'.ep = "metadata" => resp'.body.filename = req'.raw]_vars

\* The path a name leads to from the images folder.
Target(name) == <<"/">> \o JoinParts(Canonical(name))

\* C13 as stated: the image route answers 404 whenever the path the name
\* resolves to is no regular file or the name has no supported extension.
C13_NotFoundUnlessRegularImage ==
  [][LET name == decodeURIComponent(req'.raw)
     IN (Finishes /\ req'.ep = "image"
           /\ (~IsFile(disk, Target(name)) \/ ~isImageFile(name))) =>
          resp'.status = 404]_vars

\* C13 amended: the image route answers 404, or 403 when the name escapes
\* the images folder, whenever the path the name resolves to is no regular
\* file or the name has no supported extension; it never answers 200 or 500
\* for such a name.
C13_NotFoundOrDenied ==
  [][LET name == decodeURIComponent(req'.raw)
     IN (Finishes /\ req'.ep = "image"
           /\ (~IsFile(disk, Target(name)) \/ ~isImageFile(name))) =>
          (resp'.status = 404 \/ (resp'.status = 403 /\ EscapesRoot(name)))]_vars

\* A folder named like an image was asked for and answered 404 by sendFile.
C13_FolderNamedLikeImageAsked ==
  /\ req.phase = "done" /\ req.ep = "image"
  /\ \E e \in disk : e.kind = "dir" /\ e.path = Target(Decoded) /\ isImageFile(Decoded)
  /\ resp = NoRoute

\* C15: GET /api/images answers 200 with an array whatever the state of the
\* images folder, and with the empty array when the folder is missing or may
\* not be listed.
C15_ListNeverFails ==
  /\ \A listing \in readdirSync(disk, ImagesFolder) :
       /\ listRoute(listing).status = 200
       /\ EnumerationFails(disk) => listRoute(listing).body = [images |-> <<>>]
  /\ (req.ep = "list" /\ req.phase = "done") =>
       (resp.status = 200 /\ Elements(resp.body.images) \subseteq Children(InsideFiles, ImagesFolder))

\* The list was asked for while the folder holds an image and may not be
\* listed.
C15_UnlistableFolderAsked ==
  /\ ListAnswered
  /\ RootDir(FALSE) \in disk /\ ImagesUnderRoot(disk) # {}
  /\ resp = Answer(200, "", [images |-> <<>>])


(***************************************************************************)
(* Properties of isImageFile, checked under SpecNames.                     *)
(***************************************************************************)
\* The extensions the server supports, without their dot.
SupportedExtensions ==
  {<<"j", "p", "g">>, <<"j", "p", "e", "g">>, <<"p", "n", "g">>, <<"g", "i", "f">>,
   <<"w", "e", "b", "p">>, <<"b", "m", "p">>, <<"s", "v", "g">>}

\* The file name of a path: what follows its last "/".
LastSegment(name) ==
  LET slashes == {k \in 1..Len(name) : name[k] = "/"}
  IN IF slashes = {} THEN name
     ELSE SubSeq(name, (CHOOSE k \in slashes : \A m \in slashes : m <= k) + 1, Len(name))

\* The extension of a name: what follows the last "." of its file name.  A
\* file name without ".", or whose only "." is its first character, has none.
NameExtension(name) ==
  LET file == LastSegment(name)
      dots == {k \in 2..Len(file) : file[k] = "."}
  IN IF dots = {} THEN <<"none">>
     ELSE SubSeq(file, (CHOOSE k \in dots : \A m \in dots : m <= k) + 1, Len(file))

\* C14: isImageFile is true of a name exactly when its extension, lowercased,
\* is one of jpg, jpeg, png, gif, webp, bmp, svg; the case of the letters
\* does not change the result and a name without extension gives false.
C14_SupportedExtensionsOnly ==
  call.fn = "isImageFile" =>
    /\ call.result <=> ToLowerCase(NameExtension(call.arg)) \in SupportedExtensions
    /\ call.result = isImageFile(ToLowerCase(call.arg))
    /\ call.result = isImageFile([k \in 1..Len(call.arg) |-> UpperChar(call.arg[k])])
    /\ NameExtension(call.arg) = <<"none">> => ~call.result

\* A name with a supported extension in mixed case was accepted.
C14_MixedCaseAccepted ==
  call = [fn |-> "isImageFile", arg |-> <<"a", ".", "b", ".", "j", "P", "e", "G">>,
          result |-> TRUE]


(***************************************************************************)
(* More properties of the controller, checked under Spec.                  *)
(***************************************************************************)
\* The image list has loaded and is empty.
NoImages == env.listFetch = "done" /\ this.images = <<>>

\* C16: once the list has loaded with zero images no event changes the
\* controller: the playing flag, the display mode, the position and the
\* display order keep their values and no playback timer is created.
C16_NoImagesNoChange ==
  [][NoImages =>
       /\ this'.isPlaying = this.isPlaying
       /\ this'.isShuffled = this.isShuffled
       /\ this'.currentIndex = this.currentIndex
       /\ this'.displayImages = this.displayImages
       /\ env'.intervals \subseteq env.intervals]_vars

\* C17: whenever the start screen is hidden, the image list has loaded and
\* the display order is not empty.
C17_StartedOnlyOnceLoaded ==
  dom.startHidden => (env.listFetch = "done" /\ Len(this.displayImages) > 0)

\* C18: after Start the display mode is the value of the shuffle checkbox,
\* the display order is the one of that mode (the canonical list when
\* unchecked), the start screen is hidden, the position is 0 and exactly one
\* playback timer runs.
C18_StartEffect ==
  \A checked \in BOOLEAN :
    last = StartOp(checked) =>
      /\ this.isShuffled = checked
      /\ IF checked THEN IsPermutation(this.displayImages, this.images)
                    ELSE this.displayImages = this.images
      /\ dom.startHidden
      /\ this.currentIndex = 0
      /\ Cardinality(env.intervals) = 1

\* C19: next and prev leave as many playback timers as they find, the one
\* they find being replaced: with none active they create none, with one
\* active they leave one.
C19_NavigationKeepsTimerCount ==
  [][last' \in {"next", "prev"} =>
       /\ env.intervals = {} => env'.intervals = {}
       /\ env.intervals # {} =>
            /\ Cardinality(env'.intervals) = 1
            /\ this'.timer \in {t.id : t \in env'.intervals}]_vars

\* C20: changeInterval sets the period; when playing it leaves this.timer
\* running with the new period, when paused it creates no timer; and in every
\* state every live playback timer has the controller's interval as period.
C20_TimerPeriodIsInterval ==
  [][/\ last' = "changeInterval" =>
          IF this'.isPlaying
            THEN [id |-> this'.timer, period |-> this'.interval] \in env'.intervals
            ELSE env'.intervals \subseteq env.intervals
      /\ \A t \in env'.intervals : t.period = this'.interval]_vars

(***************************************************************************)
(* Properties of the metadata panel, checked under SpecPanel.              *)
(***************************************************************************)
\* The handlers that call showImage.
ShowImageOps == {"next", "prev", StartOp(TRUE), StartOp(FALSE)}

\* C21: a metadata request is issued exactly when the panel is opened or
\* showImage sets the position while the panel is open, and the display
\* order is not empty; it is for the element at the current position.  No
\* other step issues a request: closing the panel, an event with the panel
\* closed or the order empty, and a settling request add none.
C21_RequestOnOpenOrMove ==
  [][LET requested == /\ last' \in ShowImageOps \cup {"toggleMetadata"}
                      /\ this'.showMetadata
                      /\ Len(this'.displayImages) > 0
     IN IF last' \in {"displayMetadata", "fetchMetadata"}
          THEN \E k \in 1..Len(env.fetches) :
                 env'.fetches = [i \in 1..(Len(env.fetches) - 1) |->
                                   IF i < k THEN env.fetches[i] ELSE env.fetches[i + 1]]
          ELSE env'.fetches =
                 IF requested
                   THEN Append(env.fetches, At(this'.displayImages, this'.currentIndex))
                   ELSE env.fetches]_vars

\* A request has gone out for the image navigation moved to, panel open.
C21_RequestedAfterMove ==
  /\ last \in {"next", "prev"} /\ this.showMetadata
  /\ Len(this.displayImages) > 1
  /\ env.fetches # <<>>
  /\ env.fetches[Len(env.fetches)] = At(this.displayImages, this.currentIndex)

\* C22: a new Slideshow has the metadata panel enabled (the flag set, the
\* element marked enabled, the button reading "Info" with the check mark),
\* and the flag, the mark and the button text agree in every state.
C22_PanelEnabledByDefault ==
  /\ last = "constructor" =>
        this.showMetadata /\ dom.metadataEnabled /\ dom.metadataBtn = "Info*"
  /\ this.showMetadata <=> dom.metadataEnabled
  /\ this.showMetadata <=> dom.metadataBtn = "Info*"

\* C29: a metadata request in flight is never cancelled, and its response
\* is rendered without a look at the image it is for: no event removes a
\* request from those in flight, and a response that arrives is shown for
\* the image it was requested for, whatever the current position is.  So
\* the response for an image left behind, arriving last, stays on the panel.
C29_ResponsesAppliedUnchecked ==
  [][/\ last' \notin {"displayMetadata", "fetchMetadata"} =>
          /\ Len(env'.fetches) >= Len(env.fetches)
          /\ SubSeq(env'.fetches, 1, Len(env.fetches)) = env.fetches
     /\ last' = "displayMetadata" =>
          \E k \in 1..Len(env.fetches) :
            /\ env'.fetches = [i \in 1..(Len(env.fetches) - 1) |->
                                 IF i < k THEN env.fetches[i] ELSE env.fetches[i + 1]]
            /\ dom'.metadataHtml = Panel("metadata", env.fetches[k])]_vars

\* Every request has settled, the panel is open, and the response rendered
\* last is for an image that is not the current one.
C29_StaleMetadataShown ==
  /\ last = "displayMetadata" /\ this.showMetadata /\ env.fetches = <<>>
  /\ dom.metadataHtml.kind = "metadata"
  /\ dom.metadataHtml.name # At(this.displayImages, this.currentIndex)

(***************************************************************************)
(* Properties of the slide slots, checked under SpecSlides.                *)
(***************************************************************************)
\* C27: at most one of the two slide slots is marked active, in every
\* reachable state, whatever the order of showImage calls and of the
\* completions of the image loads they started.
C27_AtMostOneActiveSlot == ~(dom.slideActive[1] /\ dom.slideActive[2])

\* Loads that overlapped have completed: the marked slot is the second one
\* while this.activeSlide names the first, and a load is still in flight.
C27_OverlappingLoadsCompleted ==
  /\ last = "imgOnload" /\ env.loads # <<>>
  /\ this.activeSlide = 1 /\ dom.slideActive[2] /\ ~dom.slideActive[1]

\* C28: what is visible changes only in the load-completion callback, and
\* that callback never writes into the slot that is the visible one: the
\* active slot keeps its content on every step, under every interleaving
\* of showImage calls and load completions.
C28_VisibleSlotUntouched ==
  [][/\ (dom'.slideHtml # dom.slideHtml \/ dom'.slideActive # dom.slideActive) =>
          last' = "imgOnload"
     /\ \A s \in {1, 2} : dom.slideActive[s] => dom'.slideHtml[s] = dom.slideHtml[s]]_vars

(***************************************************************************)
(* Properties of the idle cursor, checked under SpecCursor.                *)
(***************************************************************************)
\* C30: at most one idle-cursor timeout is outstanding in every reachable
\* state.  A pointer movement shows the cursor, cancels the pending timeout
\* and creates a new one, which this.cursorTimeout names; the cursor is
\* hidden only by the timeout of the last movement firing, so only after a
\* full idle window since that movement.
C30_OneCursorTimeout ==
  /\ [](Cardinality(env.timeouts) <= 1)
  /\ [][/\ last' = "showCursor" =>
             /\ dom'.showCursor
             /\ env'.timeouts = {this'.cursorTimeout}
             /\ this'.cursorTimeout \notin env.timeouts
        /\ (dom.showCursor /\ ~dom'.showCursor) =>
             /\ last' = "cursorTimeout"
             /\ env.timeouts = {this.cursorTimeout}
             /\ env'.timeouts = {}]_vars

\* The pointer moved, moved again while the first timeout was pending, and
\* then rested: the second timeout has fired and the cursor is hidden.
C30_HiddenAfterSecondMovement ==
  /\ last = "cursorTimeout" /\ ~dom.showCursor
  /\ this.cursorTimeout = 2 /\ env.timeouts = {}

(***************************************************************************)
(* Properties of getImageMetadata, checked under SpecMetadata.             *)
(***************************************************************************)
\* C23: getImageMetadata degrades step by step.  When the image decoder
\* fails, width, height and type are null; when it succeeds they are what
\* it found; when the EXIF reader fails the exif bundle is absent.  The two
\* are independent and neither fails the result: the metadata endpoint
\* answers 200 with the file's name and size whatever the content is.
C23_DegradesPerStep ==
  call.fn = "metadata" =>
    LET d == call.arg
        m == call.result.body
    IN /\ call.result.status = 200
       /\ m.filename = N_a /\ m.size = d.size /\ m.modified = d.mtime
       /\ IF d.sized
            THEN m.width = d.width /\ m.height = d.height /\ m.type = d.type
            ELSE m.width = Null /\ m.height = Null /\ m.type = "null"
       /\ ~d.tagged => m.exif = {"absent"}
       /\ (d.tagged /\ "Make" \in d.tags) => "camera" \in m.exif

\* The decoder failed on a file the EXIF reader read: 200, no dimensions,
\* an exif bundle.
C23_UnsizedButTagged ==
  /\ call.fn = "metadata" /\ ~call.arg.sized
  /\ call.result.status = 200 /\ "camera" \in call.result.body.exif

\* C24: the exif bundle of a result is present exactly when at least one of
\* its sub-fields was extracted, that is when the EXIF reader succeeded and
\* found a tag getImageMetadata reads (for gps, both coordinates); an empty
\* bundle is never returned.
C24_ExifPresentIffExtracted ==
  call.fn = "metadata" =>
    LET d == call.arg
        m == call.result.body
        read == d.tags \ {"Latitude", "Longitude", "Orientation"}
    IN /\ m.exif # {}
       /\ m.exif # {"absent"} <=>
            (d.tagged /\ (read # {} \/ {"Latitude", "Longitude"} \subseteq d.tags))

\* The EXIF reader succeeded on a file with one coordinate and a tag that
\* is not read: no bundle.
C24_TaggedWithoutFields ==
  /\ call.fn = "metadata" /\ call.arg.tagged
  /\ call.arg.tags = {"Latitude", "Orientation"}
  /\ call.result.body.exif = {"absent"}

(***************************************************************************)
(* More properties of the server, checked under SpecServer.                *)
(***************************************************************************)
\* C25: the metadata endpoint answers 500 "Failed to read metadata" exactly
\* when the existence check passed and the stat or read that follows fails,
\* as when the file is removed in between; that request ends with 500, not
\* with 200 or 404.
C25_ReadFailureIs500 ==
  [][(Finishes /\ req'.ep = "metadata") =>
       /\ resp'.status = 500 <=>
            (req.phase = "reading" /\ resp.status = 0 /\ ~IsFile(disk, resp.body.path))
       /\ resp'.status = 500 =>
            (resp'.text = "Failed to read metadata" /\ resp'.body = NullObject)]_vars

\* The metadata of a.jpg was asked for, the file was there when the route
\* looked and gone when getImageMetadata read it.
C25_FileRemovedBeforeRead ==
  /\ req.ep = "metadata" /\ req.phase = "done" /\ req.raw = N_a
  /\ resp = Answer(500, "Failed to read metadata", NullObject)

(***************************************************************************)
(* Properties of concurrent requests, checked under SpecReads.             *)
(***************************************************************************)
\* The answer of a route handler that runs from its guards to its read with
\* nothing in between.
Alone(fs, ep, raw) ==
  LET a == RouteGuards(fs, ep, raw)
  IN IF a.status = 0 THEN RouteRead(fs, ep, a) ELSE a

\* C26: no request changes anything: every step of a request leaves the
\* filesystem as it is, and the server keeps no state between requests.  So
\* on a fixed filesystem the answer to a request is the one its route gives
\* on that filesystem, whatever other requests are served in between.
C26_RequestsOnlyRead ==
  /\ [][(req' # req \/ resp' # resp \/ conc' # conc) => disk' = disk]_vars
  /\ []((req.phase = "done" /\ req.ep \in Endpoints) =>
           resp = Alone(disk, req.ep, req.raw))
  /\ [](conc.req.phase = "done" => conc.resp = Alone(disk, conc.req.ep, conc.req.raw))
  /\ []((req.phase = "done" /\ req.ep = "list") =>
           \E listing \in readdirSync(disk, ImagesFolder) : resp = listRoute(listing))

\* One request for a.jpg has been answered with the file while another
\* request for it, which arrived before, is still to read it.
C26_ServedWhileAnotherReads ==
  /\ req.phase = "done" /\ req.raw = N_a /\ resp.status = 200
  /\ conc.req.phase = "reading" /\ conc.req.raw = N_a

(***************************************************************************)
(* Properties of the shuffle, checked under SpecShuffle.                   *)
(***************************************************************************)
\* C31: the shuffle runs i from the last index down to 1 and swaps element
\* i with element j, j drawn from 0..i.  On a list of n distinct elements
\* the results over all sequences of draws are exactly the n! orderings of
\* the list, and the result of a call is produced by its sequence of draws
\* and by no other.
C31_ShuffleIsBijective ==
  call.fn = "updateDisplayOrder" =>
    LET list == call.arg.images
        n == Len(list)
        Shuffled(r) == ShuffleFrom(list, n - 1, r)
        orderings == {[k \in 1..n |-> list[p[k]]] :
                        p \in {q \in [1..n -> 1..n] : \A a, b \in 1..n : q[a] = q[b] => a = b}}
    IN /\ call.result = Shuffled(call.arg.rnd)
       /\ {Shuffled(r) : r \in Rnds(n)} = orderings
       /\ \A r \in Rnds(n) : Shuffled(r) = call.result => r = call.arg.rnd

\* A list of MaxShuffled names came back reversed.
C31_ShuffledToReverse ==
  /\ call.fn = "updateDisplayOrder" /\ Len(call.result) = MaxShuffled
  /\ \A k \in 1..MaxShuffled :
       call.result[k] = call.arg.images[MaxShuffled + 1 - k]

(***************************************************************************)
(* Further properties of the controller, checked under Spec.               *)
(***************************************************************************)
\* C32: toggleShuffle flips the display-mode flag on every call, the
\* shuffle button's label matches the flag in every state, and when the
\* element shown before is not in the new order (the order was empty, the
\* slideshow not started) the current position becomes 0.
C32_ToggleFlipsAndFallsBack ==
  /\ [](dom.shuffleBtn = IF this.isShuffled THEN "Shuffle" ELSE "Order")
  /\ [][last' = "toggleShuffle" =>
          /\ this'.isShuffled = ~this.isShuffled
          /\ (\A k \in 1..Len(this'.displayImages) : this'.displayImages[k] # Shown) =>
               this'.currentIndex = 0]_vars

\* toggleShuffle ran before Start on a loaded list: the order it was called
\* with was empty, the one it left is the list.
C32_ToggledBeforeStart ==
  /\ last = "toggleShuffle" /\ ~dom.startHidden
  /\ Len(this.displayImages) = MaxImages /\ this.currentIndex = 0

\* C33: while the start screen is shown no playback timer is alive, whatever
\* keys, touches, interval changes and control clicks have been delivered.
C33_NoTimerBeforeStart ==
  ~dom.startHidden => (env.intervals = {} /\ this.timer = Null)

(***************************************************************************)
(* More properties of the slide slots, checked under SpecSlides.           *)
(***************************************************************************)
\* C34: once every pending image load has completed, the image in the
\* visible slot is the element at the current position of the display
\* order, in whatever order the loads completed.
C34_VisibleIsCurrentWhenSettled ==
  env.loads = <<>> =>
    \A s \in {1, 2} : dom.slideActive[s] => dom.slideHtml[s] = Shown

\* C35: once a transition has completed, this.activeSlide names the slot
\* that carries the active mark, for every interleaving of showImage calls
\* and load completions.
C35_ActiveSlideNamesMarkedSlot ==
  (dom.slideActive[1] \/ dom.slideActive[2]) => dom.slideActive[this.activeSlide]

(***************************************************************************)
(* More properties of requests on a fixed filesystem, checked under        *)
(* SpecReads.                                                              *)
(***************************************************************************)
\* C36: with the filesystem unchanged between the two requests, every
\* reference GET /api/images returned is servable: the request for
\* /images/ followed by the percent-encoded reference is answered 200.
C36_ListedReferencesServed ==
  (/\ req.ep = "list" /\ req.phase = "done"
   /\ conc.req.ep = "image" /\ conc.req.phase = "done"
   /\ \E k \in 1..Len(resp.body.images) :
        encodeURIComponent(resp.body.images[k]) = conc.req.raw)
    => conc.resp.status = 200

C38_TogglesLeavePlaybackAlone ==
  [][last' \in {"toggleShuffle", "toggleMetadata"} =>
       /\ this'.isPlaying = this.isPlaying /\ this'.interval = this.interval
       /\ env'.intervals = env.intervals /\ this'.timer = this.timer
       /\ this'.activeSlide = this.activeSlide
       /\ dom'.slideActive = dom.slideActive /\ dom'.slideHtml = dom.slideHtml
       /\ last' = "toggleShuffle" => env'.loads = env.loads]_vars

\* The order was toggled while the slideshow played with the metadata panel
\* open and an image on screen.
C38_ToggledWhilePlaying ==
  /\ last = "toggleShuffle" /\ dom.startHidden /\ this.showMetadata
  /\ this.isPlaying /\ env.intervals # {}
  /\ dom.slideActive[1] \/ dom.slideActive[2]

====
